---- MODULE Spec2Model ----
(***************************************************************************)
(* Model of wgpu-scene: the free-look camera (camera.rs) and the model     *)
(* loader (resources.rs).                                                  *)
(*                                                                         *)
(* f32/f64 values are fixed-point integers with four decimals: the real    *)
(* number r is the integer r * Scale.  Angles held by the camera are       *)
(* radians (so 15531 is 1.5531 rad), raw pointer deltas are the device's   *)
(* units, which process_device_event treats as degrees.  All products stay *)
(* below 2^31.                                                             *)
(***************************************************************************)
EXTENDS Integers, Sequences, FiniteSets, TLC

VARIABLES
    position, fov_y, up, front, right, pitch, yaw,          \* Camera
    is_forward_pressed, is_backward_pressed, is_left_pressed,
    is_right_pressed, is_down_pressed, is_up_pressed,
    cursor_move,                                            \* CameraController
    keys_down,          \* history: the keys of the forward flag whose last event was a press
    pending_events,     \* history: the raw deltas of the pointer motions since the last update_camera
    last,               \* the last call: its name, argument and return value
    steps,              \* number of calls made so far
    target,             \* the build: "native" (filesystem) or "wasm32" (network)
    asset,              \* load_model: the resources behind file_name, as the fetcher finds them
    pc,                 \* load_model: the await it is suspended at
    obj_materials,      \* load_model: the material result of the parser
    models,             \* load_model: the mesh groups of the parser
    materials,          \* load_model: the materials built so far
    diffuse_texture,    \* load_model: the diffuse texture of the material being built
    result,             \* load_model: what its caller gets
    fetches,            \* history: the fetches made, in order, each with its outcome
    gpu_requests        \* history: the requests made to the GPU boundary, in order

cameraVars == <<position, fov_y, up, front, right, pitch, yaw>>
flagVars == <<is_forward_pressed, is_backward_pressed, is_left_pressed,
              is_right_pressed, is_down_pressed, is_up_pressed>>
controllerVars == <<flagVars, cursor_move>>
inputVars == <<cameraVars, controllerVars, keys_down, pending_events, last, steps>>
loaderVars == <<target, asset, pc, obj_materials, models, materials, diffuse_texture, result,
                fetches, gpu_requests>>
vars == <<inputVars, loaderVars>>

----------------------------------------------------------------------------
(* Bounds of the model *)

MaxSteps == 5
MaxMaterials == 2
MaxMeshes == 2
MaxFetches == 2
MaxTriangles == 2

\* CameraController::new(move_speed, look_speed): the caller's configuration
MoveSpeed == 5000
LookSpeed == 10000

----------------------------------------------------------------------------
(* Fixed-point arithmetic *)

Scale == 10000

\* a / b rounded to the nearest integer, halves away from zero (b > 0)
RDiv(a, b) ==
    IF a >= 0 THEN (2 * a + b) \div (2 * b)
              ELSE -((2 * (-a) + b) \div (2 * b))

Mul(a, b) == RDiv(a * b, Scale)

Abs(a) == IF a < 0 THEN -a ELSE a

RECURSIVE SqrtSearch(_, _, _)
SqrtSearch(n, lo, hi) ==
    IF hi - lo <= 1 THEN lo
    ELSE LET mid == (lo + hi) \div 2
         IN  IF mid * mid <= n THEN SqrtSearch(n, mid, hi)
                               ELSE SqrtSearch(n, lo, mid)

\* the integer nearest to the square root of n (0 <= n < 16 * Scale^2)
ISqrt(n) ==
    LET r == SqrtSearch(n, 0, 4 * Scale + 1)
    IN  IF n - r * r > r THEN r + 1 ELSE r

\* f32::to_radians: x * pi / 180, with pi / 180 = 0.01745
ToRadians(x) == RDiv(x * 349, 20000)

Clamp(x, lo, hi) == IF x < lo THEN lo ELSE IF x > hi THEN hi ELSE x

Pi == 31416
HalfPi == 15708
TwoPi == 62832

\* sine of t for -HalfPi <= t <= HalfPi: t - t^3/3! + t^5/5! - t^7/7!
SinSeries(t) ==
    LET t2 == Mul(t, t)
        a3 == RDiv(Mul(t, t2), 6)
        a5 == RDiv(Mul(a3, t2), 20)
        a7 == RDiv(Mul(a5, t2), 42)
    IN  Clamp(t - a3 + a5 - a7, -Scale, Scale)

\* f32::sin
Sin(x) ==
    LET r == ((x + Pi) % TwoPi) - Pi
        t == IF r > HalfPi THEN Pi - r
             ELSE IF r < -HalfPi THEN -Pi - r
             ELSE r
    IN  SinSeries(t)

\* f32::cos
Cos(x) == Sin(x + HalfPi)

----------------------------------------------------------------------------
(* cgmath vectors *)

VAdd(a, b) == <<a[1] + b[1], a[2] + b[2], a[3] + b[3]>>

VScale(a, s) == <<Mul(a[1], s), Mul(a[2], s), Mul(a[3], s)>>

\* dot product, at scale Scale * Scale
Dot(a, b) == a[1] * b[1] + a[2] * b[2] + a[3] * b[3]

Cross(a, b) == <<Mul(a[2], b[3]) - Mul(a[3], b[2]),
                 Mul(a[3], b[1]) - Mul(a[1], b[3]),
                 Mul(a[1], b[2]) - Mul(a[2], b[1])>>

Magnitude(a) == ISqrt(Dot(a, a))

\* InnerSpace::normalize; cgmath yields NaN components for the zero vector,
\* which no reachable camera produces (cos(pitch) > 0 inside the clamp)
Normalize(a) ==
    LET m == Magnitude(a)
    IN  IF m = 0 THEN a
        ELSE <<RDiv(a[1] * Scale, m), RDiv(a[2] * Scale, m), RDiv(a[3] * Scale, m)>>

----------------------------------------------------------------------------
(* Option<T> *)

None == <<>>
Some(x) == <<x>>

----------------------------------------------------------------------------
(* Camera *)

INITIAL_FOV_Y == 45 * Scale
INITIAL_YAW == ToRadians(-45 * Scale)
PITCH_LIMIT == ToRadians(89 * Scale)
FOV_CLAMP_MIN == ToRadians(1 * Scale)
FOV_CLAMP_MAX == ToRadians(45 * Scale)
WORLD_UP == <<0, Scale, 0>>

\* update_vectors with the cross product left unnormalized
RightOfUnnormalized(p, y) ==
    Cross(Normalize(<<Mul(Cos(p), Cos(y)), Sin(p), -Mul(Cos(p), Sin(y))>>), WORLD_UP)

\* Camera::update_vectors: the three vectors as computed from the two angles
FrontOf(p, y) == Normalize(<<Mul(Cos(p), Cos(y)), Sin(p), -Mul(Cos(p), Sin(y))>>)
UpOf(p, y) == WORLD_UP
RightOf(p, y) == Normalize(Cross(FrontOf(p, y), UpOf(p, y)))

update_vectors ==
    /\ front' = FrontOf(pitch', yaw')
    /\ up' = UpOf(pitch', yaw')
    /\ right' = RightOf(pitch', yaw')

\* increment_pitch without its clamp
PitchAfterUnclamped(p, delta_pitch) == p + delta_pitch

\* the pitch Camera::increment_pitch stores
PitchAfter(p, delta_pitch) == Clamp(p + delta_pitch, -PITCH_LIMIT, PITCH_LIMIT)

\* the yaw Camera::increment_yaw stores
YawAfter(y, delta_yaw) == y + delta_yaw

\* the field of view Camera::set_fov_y stores
FovAfter(v) == Clamp(v, FOV_CLAMP_MIN, FOV_CLAMP_MAX)

\* Camera::new returning the struct literal, update_vectors not called
CameraNewLiteral ==
    /\ position = <<0, 0, 0>>
    /\ fov_y = INITIAL_FOV_Y
    /\ pitch = 0
    /\ yaw = INITIAL_YAW
    /\ front = <<0, 0, Scale>>
    /\ up = <<Scale, 0, 0>>
    /\ right = <<0, Scale, 0>>

\* Camera::new(position, aspect_ratio), with the camera placed at the origin
CameraNew ==
    /\ position = <<0, 0, 0>>
    /\ fov_y = INITIAL_FOV_Y
    /\ pitch = 0
    /\ yaw = INITIAL_YAW
    /\ front = FrontOf(pitch, yaw)
    /\ up = UpOf(pitch, yaw)
    /\ right = RightOf(pitch, yaw)

\* one more call is made on the camera or its controller
Call(op, arg, ret) ==
    /\ UNCHANGED loaderVars
    /\ steps < MaxSteps
    /\ steps' = steps + 1
    /\ last' = [op |-> op, arg |-> arg, ret |-> ret]

increment_pitch(delta_pitch) ==
    /\ pitch' = PitchAfter(pitch, delta_pitch)
    /\ yaw' = yaw
    /\ update_vectors
    /\ UNCHANGED <<position, fov_y, controllerVars, keys_down, pending_events>>
    /\ Call("increment_pitch", delta_pitch, None)

increment_yaw(delta_yaw) ==
    /\ yaw' = YawAfter(yaw, delta_yaw)
    /\ pitch' = pitch
    /\ update_vectors
    /\ UNCHANGED <<position, fov_y, controllerVars, keys_down, pending_events>>
    /\ Call("increment_yaw", delta_yaw, None)

set_fov_y(v) ==
    /\ fov_y' = FovAfter(v)
    /\ UNCHANGED <<position, up, front, right, pitch, yaw, controllerVars, keys_down, pending_events>>
    /\ Call("set_fov_y", v, None)

----------------------------------------------------------------------------
(* CameraController *)

\* CameraController::new
ControllerNew ==
    /\ is_forward_pressed = FALSE
    /\ is_backward_pressed = FALSE
    /\ is_left_pressed = FALSE
    /\ is_right_pressed = FALSE
    /\ is_down_pressed = FALSE
    /\ is_up_pressed = FALSE
    /\ cursor_move = None

KeyboardInput(state, virtual_keycode) ==
    [kind |-> "KeyboardInput", state |-> state, virtual_keycode |-> virtual_keycode]

MouseMotion(delta) == [kind |-> "MouseMotion", delta |-> delta]

\* the match with the Up arrow bound to the strafe-up flag
BindingUpArrowStrafes(keycode) ==
    CASE keycode = "W" -> "forward"
      [] keycode \in {"A", "Left"} -> "left"
      [] keycode \in {"S", "Down"} -> "backward"
      [] keycode \in {"D", "Right"} -> "right"
      [] keycode = "LShift" -> "down"
      [] keycode \in {"Space", "Up"} -> "up"
      [] OTHER -> "none"

\* the flag the match of process_window_events assigns for a key code
Binding(keycode) ==
    CASE keycode \in {"W", "Up"} -> "forward"
      [] keycode \in {"A", "Left"} -> "left"
      [] keycode \in {"S", "Down"} -> "backward"
      [] keycode \in {"D", "Right"} -> "right"
      [] keycode = "LShift" -> "down"
      [] keycode = "Space" -> "up"
      [] OTHER -> "none"

\* the flag a window event assigns, "none" when the event is not consumed
FlagOf(event) ==
    IF event.kind = "KeyboardInput" /\ event.virtual_keycode # None
    THEN Binding(event.virtual_keycode[1])
    ELSE "none"

\* the keys of the forward flag that are down after a window event
KeysDownAfter(event) ==
    IF FlagOf(event) = "forward"
    THEN IF event.state = "Pressed" THEN keys_down \cup {event.virtual_keycode[1]}
                                    ELSE keys_down \ {event.virtual_keycode[1]}
    ELSE keys_down

\* a flag that stays set while any key bound to it is down
FlagAfterAnyKeyDown(flag, event) ==
    event.state = "Pressed" \/ \E k \in KeysDownAfter(event) : Binding(k) = flag

\* self.is_.._pressed = is_pressed, with is_pressed = (*state == ElementState::Pressed)
FlagAfter(flag, event) == event.state = "Pressed"

process_window_events(event) ==
    LET flag == FlagOf(event)
    IN  /\ is_forward_pressed' = IF flag = "forward" THEN FlagAfter(flag, event) ELSE is_forward_pressed
        /\ is_left_pressed' = IF flag = "left" THEN FlagAfter(flag, event) ELSE is_left_pressed
        /\ is_backward_pressed' = IF flag = "backward" THEN FlagAfter(flag, event) ELSE is_backward_pressed
        /\ is_right_pressed' = IF flag = "right" THEN FlagAfter(flag, event) ELSE is_right_pressed
        /\ is_down_pressed' = IF flag = "down" THEN FlagAfter(flag, event) ELSE is_down_pressed
        /\ is_up_pressed' = IF flag = "up" THEN FlagAfter(flag, event) ELSE is_up_pressed
        /\ keys_down' = KeysDownAfter(event)
        /\ UNCHANGED <<cameraVars, cursor_move, pending_events>>
        /\ Call("process_window_events", event, flag # "none")

\* the (delta_yaw, delta_pitch) pair a pointer motion is converted to
ConvertDelta(delta) ==
    <<Mul(-ToRadians(delta[1]), LookSpeed), Mul(-ToRadians(delta[2]), LookSpeed)>>

\* a pointer motion added to the pending pair instead of replacing it
PendingAccumulated(pending, delta) ==
    IF pending = None THEN Some(ConvertDelta(delta))
    ELSE Some(<<pending[1][1] + ConvertDelta(delta)[1], pending[1][2] + ConvertDelta(delta)[2]>>)

\* the pending pair after a pointer motion: the new pair replaces the old one
PendingAfterMotion(pending, delta) == Some(ConvertDelta(delta))

process_device_event(event) ==
    /\ IF event.kind = "MouseMotion"
       THEN /\ cursor_move' = PendingAfterMotion(cursor_move, event.delta)
            /\ pending_events' = Append(pending_events, event.delta)
       ELSE UNCHANGED <<cursor_move, pending_events>>
    /\ UNCHANGED <<cameraVars, flagVars, keys_down>>
    /\ Call("process_device_event", event, event.kind = "MouseMotion")

\* position += axis * speed, when the flag is held
Moved(pos, held, axis, speed) == IF held THEN VAdd(pos, VScale(axis, speed)) ELSE pos

\* the six if statements written as one if / else if chain
PositionAfterFirstHeld ==
    IF is_forward_pressed THEN VAdd(position, VScale(front, MoveSpeed))
    ELSE IF is_backward_pressed THEN VAdd(position, VScale(front, -MoveSpeed))
    ELSE IF is_right_pressed THEN VAdd(position, VScale(right, MoveSpeed))
    ELSE IF is_left_pressed THEN VAdd(position, VScale(right, -MoveSpeed))
    ELSE IF is_down_pressed THEN VAdd(position, VScale(up, -MoveSpeed))
    ELSE IF is_up_pressed THEN VAdd(position, VScale(up, MoveSpeed))
    ELSE position

\* the six if statements run after the pending pointer delta is applied
PositionAfterRotation ==
    LET p == IF cursor_move = None THEN pitch ELSE PitchAfter(pitch, cursor_move[1][2])
        y == IF cursor_move = None THEN yaw ELSE YawAfter(yaw, cursor_move[1][1])
        p1 == Moved(position, is_forward_pressed, FrontOf(p, y), MoveSpeed)
        p2 == Moved(p1, is_backward_pressed, FrontOf(p, y), -MoveSpeed)
        p3 == Moved(p2, is_right_pressed, RightOf(p, y), MoveSpeed)
        p4 == Moved(p3, is_left_pressed, RightOf(p, y), -MoveSpeed)
        p5 == Moved(p4, is_down_pressed, UpOf(p, y), -MoveSpeed)
    IN  Moved(p5, is_up_pressed, UpOf(p, y), MoveSpeed)

\* the position update_camera leaves: the six if statements in their order
PositionAfterUpdate ==
    LET p1 == Moved(position, is_forward_pressed, front, MoveSpeed)
        p2 == Moved(p1, is_backward_pressed, front, -MoveSpeed)
        p3 == Moved(p2, is_right_pressed, right, MoveSpeed)
        p4 == Moved(p3, is_left_pressed, right, -MoveSpeed)
        p5 == Moved(p4, is_down_pressed, up, -MoveSpeed)
    IN  Moved(p5, is_up_pressed, up, MoveSpeed)

\* update_camera without the assignment of None
PendingKept == cursor_move

\* the pending pair update_camera leaves
PendingAfterUpdate == None

\* update_camera that takes the keys as released once it has moved
update_camera_releasing_keys ==
    /\ position' = PositionAfterUpdate
    /\ IF cursor_move # None
       THEN /\ yaw' = YawAfter(yaw, cursor_move[1][1])
            /\ pitch' = PitchAfter(pitch, cursor_move[1][2])
            /\ update_vectors
            /\ cursor_move' = PendingAfterUpdate
       ELSE UNCHANGED <<yaw, pitch, front, up, right, cursor_move>>
    /\ pending_events' = <<>>
    /\ is_forward_pressed' = FALSE
    /\ is_backward_pressed' = FALSE
    /\ is_left_pressed' = FALSE
    /\ is_right_pressed' = FALSE
    /\ is_down_pressed' = FALSE
    /\ is_up_pressed' = FALSE
    /\ UNCHANGED <<fov_y, keys_down>>
    /\ Call("update_camera", [applied |-> cursor_move, events |-> pending_events], None)

update_camera ==
    /\ position' = PositionAfterUpdate
    /\ IF cursor_move # None
       THEN /\ yaw' = YawAfter(yaw, cursor_move[1][1])
            /\ pitch' = PitchAfter(pitch, cursor_move[1][2])
            /\ update_vectors
            /\ cursor_move' = PendingAfterUpdate
       ELSE UNCHANGED <<yaw, pitch, front, up, right, cursor_move>>
    /\ pending_events' = <<>>
    /\ UNCHANGED <<fov_y, flagVars, keys_down>>
    /\ Call("update_camera", [applied |-> cursor_move, events |-> pending_events], None)

----------------------------------------------------------------------------
(* resources.rs: load_model *)

FileStates == {"ok", "missing", "malformed"}

\* a material of the material file: the two textures it names, as found
MaterialDescs == [diffuse : FileStates, normal : FileStates]

\* the sequences over S of length at most n
SeqsUpTo(S, n) == UNION {[1..k -> S] : k \in 0..n}

\* the material ids the parser can give a mesh of an asset with n materials
MaterialIds(n) == {None} \cup {Some(i) : i \in 0..(n - 1)}

MtlStates == {"none", "ok", "missing", "malformed"}

\* the parser's mesh of a unit quad: positions (0,0,0), (1,0,0), (1,1,0),
\* (0,1,0), texture coordinates (x, y), normals +z
QuadMesh(material_id, indices) ==
    [material_id |-> material_id,
     positions |-> <<0, 0, 0,  Scale, 0, 0,  Scale, Scale, 0,  0, Scale, 0>>,
     texcoords |-> <<0, 0,  Scale, 0,  Scale, Scale,  0, Scale>>,
     normals |-> <<0, 0, Scale,  0, 0, Scale,  0, 0, Scale,  0, 0, Scale>>,
     indices |-> indices]

\* the parser's mesh of a sloped patch whose second and fourth vertex share
\* their texture coordinates
PatchMesh(material_id, indices) ==
    [material_id |-> material_id,
     positions |-> <<0, 0, 0,  2 * Scale, 0, 0,  0, 2 * Scale, Scale,  Scale, Scale, Scale>>,
     texcoords |-> <<0, 0,  Scale, 0,  0, Scale \div 2,  Scale, 0>>,
     normals |-> <<0, 0, Scale,  0, 0, Scale,  0, 0, Scale,  0, 0, Scale>>,
     indices |-> indices]

\* the index list of the quad split along the diagonal from vertex 0 to 2
QuadIndices == <<0, 1, 2,  0, 2, 3>>

\* the mesh groups of an asset with n materials
MeshDescs(n) == {QuadMesh(id, QuadIndices) : id \in MaterialIds(n)}

\* a is an asset whose text and material file are fetched and parsed: its
\* materials and mesh groups are what the parser returns
ParsedAsset(a) ==
    \E ms \in SeqsUpTo(MaterialDescs, MaxMaterials) :
        \E gs \in SeqsUpTo(MeshDescs(Len(ms)), MaxMeshes) :
            \E mtl \in (IF Len(ms) = 0 THEN {"none", "ok"} ELSE {"ok"}) :
                a = [obj |-> "ok", mtl |-> mtl, materials |-> ms, meshes |-> gs]

\* a is an asset whose text or material file is missing or malformed: what it
\* would hold is never seen
BrokenAsset(a) ==
    \E o \in FileStates, mtl \in MtlStates, gs \in SeqsUpTo(MeshDescs(0), 1) :
        /\ o # "ok" \/ mtl \in {"missing", "malformed"}
        /\ a = [obj |-> o, mtl |-> mtl, materials |-> <<>>, meshes |-> gs]

NoAsset == [obj |-> "missing", mtl |-> "none", materials |-> <<>>, meshes |-> <<>>]

Pending == [kind |-> "Pending"]
Ok(v) == [kind |-> "Ok", value |-> v]
Err(e) == [kind |-> "Err", error |-> e]
Panic == [kind |-> "Panic"]

\* no load_model call is running
LoaderIdle ==
    /\ target = "native"
    /\ asset = NoAsset
    /\ pc = "idle"
    /\ obj_materials = Pending
    /\ models = <<>>
    /\ materials = <<>>
    /\ diffuse_texture = None
    /\ result = Pending
    /\ fetches = <<>>
    /\ gpu_requests = <<>>

\* load_model(file_name, ..) is called
LoadStart ==
    /\ target = "native"
    /\ ParsedAsset(asset) \/ BrokenAsset(asset)
    /\ pc = "load_obj"
    /\ obj_materials = Pending
    /\ models = <<>>
    /\ materials = <<>>
    /\ diffuse_texture = None
    /\ result = Pending
    /\ fetches = <<>>
    /\ gpu_requests = <<>>

\* the index triples of a triangle over four vertices
Triangles == {t \in [1..3 -> 0..3] : t[1] # t[2] /\ t[1] # t[3] /\ t[2] # t[3]}

\* the flat index list of a sequence of triangles
RECURSIVE Flatten(_)
Flatten(ts) == IF ts = <<>> THEN <<>> ELSE Flatten(SubSeq(ts, 1, Len(ts) - 1)) \o ts[Len(ts)]

\* a is an asset without materials whose one mesh group has up to
\* MaxTriangles triangles over four vertices
GeometryAsset(a) ==
    \E n \in 1..MaxTriangles :
        \E ts \in [1..n -> Triangles] :
            \E m \in {QuadMesh(None, Flatten(ts)), PatchMesh(None, Flatten(ts))} :
                a = [obj |-> "ok", mtl |-> "none", materials |-> <<>>, meshes |-> <<m>>]

\* load_model(file_name, ..) is called on such an asset
LoadGeometryStart ==
    /\ target = "native"
    /\ GeometryAsset(asset)
    /\ pc = "load_obj"
    /\ obj_materials = Pending
    /\ models = <<>>
    /\ materials = <<>>
    /\ diffuse_texture = None
    /\ result = Pending
    /\ fetches = <<>>
    /\ gpu_requests = <<>>

\* the state the fetcher finds a path in
FileState(path) ==
    CASE path = <<"obj">> -> asset.obj
      [] path = <<"mtl">> -> asset.mtl
      [] path[1] = "diffuse" -> asset.materials[path[2]].diffuse
      [] path[1] = "normal" -> asset.materials[path[2]].normal

\* std::fs::read_to_string(path)? / std::fs::read(path)?: a file that is
\* missing or cannot be read is an error
NativeFetch(path) ==
    IF FileState(path) \in {"missing", "unreachable"} THEN Err("FetchFailure") ELSE Ok(path)

\* reqwest::get(url).await?: an error when no response arrives; a response
\* with a non-success status is a response like any other
HttpGet(path) ==
    IF FileState(path) = "unreachable" THEN Err("FetchFailure")
    ELSE Ok([status |-> IF FileState(path) = "missing" THEN 404 ELSE 200,
             body |-> IF FileState(path) = "missing" THEN <<"error page", path>> ELSE path])

\* reqwest::get(url).await?.text().await? / .bytes().await?: the body of the
\* response, whatever its status
NetworkFetch(path) ==
    IF HttpGet(path).kind = "Err" THEN HttpGet(path) ELSE Ok(HttpGet(path).value.body)

\* load_string / load_binary: the contents, or the fetcher's error
Fetch(path) == IF target = "wasm32" THEN NetworkFetch(path) ELSE NativeFetch(path)

Fetched(path) == fetches' = Append(fetches, [path |-> path, ok |-> Fetch(path).kind = "Ok"])

\* what load_string / load_binary find behind a path: the file or response
\* is there ("ok", "malformed"), the file is absent or the server answers with
\* a non-success status ("missing"), the file cannot be read or no response
\* arrives ("unreachable")
FetchStates == {"ok", "malformed", "missing", "unreachable"}

\* the resources one fetcher call is made on
FetchStart ==
    /\ target \in {"native", "wasm32"}
    /\ \E o \in FetchStates, mtl \in FetchStates, d \in FetchStates, n \in FetchStates :
          asset = [obj |-> o, mtl |-> mtl, materials |-> <<[diffuse |-> d, normal |-> n]>>,
                   meshes |-> <<>>]
    /\ pc = "idle"
    /\ obj_materials = Pending
    /\ models = <<>>
    /\ materials = <<>>
    /\ diffuse_texture = None
    /\ result = Pending
    /\ fetches = <<>>
    /\ gpu_requests = <<>>

\* a caller awaits load_string(file_name)
load_string(path) ==
    /\ Len(fetches) < MaxFetches
    /\ Fetched(path)
    /\ result' = Fetch(path)
    /\ UNCHANGED <<target, asset, pc, obj_materials, models, materials, diffuse_texture,
                   gpu_requests, inputVars>>

\* a caller awaits load_binary(file_name)
load_binary(path) ==
    /\ Len(fetches) < MaxFetches
    /\ Fetched(path)
    /\ result' = Fetch(path)
    /\ UNCHANGED <<target, asset, pc, obj_materials, models, materials, diffuse_texture,
                   gpu_requests, inputVars>>

\* load_texture without the ? after load_binary: a texture without contents
LoadTextureMissingIgnored(path) ==
    IF FileState(path) = "malformed" THEN Err("TextureFailure") ELSE Ok(path)

\* load_texture: load_binary(file_name).await?, then Texture::from_bytes
LoadTexture(path) ==
    IF Fetch(path).kind = "Err" THEN Fetch(path)
    ELSE IF FileState(path) = "malformed" THEN Err("TextureFailure")
    ELSE Ok(path)

\* the requests load_texture makes to the GPU boundary
TextureRequests(path) ==
    IF Fetch(path).kind = "Ok" THEN <<[request |-> "texture", of |-> path]>> ELSE <<>>

\* load_model returns r
Return(r) == result' = r /\ pc' = "done"

\* where the for loop over the materials continues after n of them
LoopAt(n) == IF n < Len(obj_materials.value) THEN "diffuse" ELSE "meshes"

\* let obj_text = load_string(file_name).await?
LoadObjText ==
    /\ pc = "load_obj"
    /\ Fetched(<<"obj">>)
    /\ IF Fetch(<<"obj">>).kind = "Err"
       THEN Return(Fetch(<<"obj">>))
       ELSE pc' = "parse" /\ result' = result
    /\ UNCHANGED <<target, asset, obj_materials, models, materials, diffuse_texture, gpu_requests, inputVars>>

\* what the material callback yields for a fetch that failed: unwrap() panics
MaterialFileFetchFailed == Panic

\* the material callback of the parser, run for the asset's mtllib line
LoadMaterialFile ==
    /\ pc = "parse"
    /\ asset.mtl # "none"
    /\ obj_materials = Pending
    /\ Fetched(<<"mtl">>)
    /\ IF Fetch(<<"mtl">>).kind = "Err"
       THEN Return(MaterialFileFetchFailed) /\ obj_materials' = obj_materials
       ELSE /\ obj_materials' = IF asset.mtl = "malformed" THEN Err("ParseFailure")
                                                            ELSE Ok(asset.materials)
            /\ UNCHANGED <<pc, result>>
    /\ UNCHANGED <<target, asset, models, materials, diffuse_texture, gpu_requests, inputVars>>

\* tobj::load_obj_buf_async(..).await? returns: a malformed text fails where
\* the parser meets the bad line, before or after the mtllib line
ParseObj ==
    /\ pc = "parse"
    /\ IF asset.obj = "malformed"
       THEN Return(Err("ParseFailure")) /\ UNCHANGED <<models, obj_materials>>
       ELSE /\ asset.mtl # "none" => obj_materials # Pending
            /\ models' = asset.meshes
            /\ obj_materials' = IF asset.mtl = "none" THEN Ok(<<>>) ELSE obj_materials
            /\ pc' = "materials"
            /\ result' = result
    /\ UNCHANGED <<target, asset, materials, diffuse_texture, fetches, gpu_requests, inputVars>>

\* for m in obj_materials?
UnwrapMaterials ==
    /\ pc = "materials"
    /\ IF obj_materials.kind = "Err"
       THEN Return(obj_materials)
       ELSE pc' = LoopAt(0) /\ result' = result
    /\ UNCHANGED <<target, asset, obj_materials, models, materials, diffuse_texture, fetches,
                   gpu_requests, inputVars>>

\* let diffuse_texture = load_texture(&diffuse_texture_path, false, ..).await?
LoadDiffuseTexture ==
    /\ pc = "diffuse"
    /\ LET path == <<"diffuse", Len(materials) + 1>>
       IN  /\ Fetched(path)
           /\ gpu_requests' = gpu_requests \o TextureRequests(path)
           /\ IF LoadTexture(path).kind = "Err"
              THEN Return(LoadTexture(path)) /\ diffuse_texture' = diffuse_texture
              ELSE /\ diffuse_texture' = Some(LoadTexture(path).value)
                   /\ pc' = "normal"
                   /\ result' = result
    /\ UNCHANGED <<target, asset, obj_materials, models, materials, inputVars>>

\* let normal_texture = load_texture(&normal_texture_path, true, ..).await?
\* and materials.push(Material::new(..))
LoadNormalTexture ==
    /\ pc = "normal"
    /\ LET i == Len(materials) + 1
           path == <<"normal", i>>
       IN  /\ Fetched(path)
           /\ IF LoadTexture(path).kind = "Err"
              THEN /\ Return(LoadTexture(path))
                   /\ gpu_requests' = gpu_requests \o TextureRequests(path)
                   /\ UNCHANGED <<materials, diffuse_texture>>
              ELSE /\ materials' = Append(materials,
                                     [name |-> i,
                                      diffuse_texture |-> diffuse_texture[1],
                                      normal_texture |-> LoadTexture(path).value])
                   /\ gpu_requests' = gpu_requests \o TextureRequests(path)
                                        \o <<[request |-> "material", of |-> i]>>
                   /\ diffuse_texture' = None
                   /\ pc' = LoopAt(i)
                   /\ result' = result
    /\ UNCHANGED <<target, asset, obj_materials, models, inputVars>>

(* load_model: the vertices of a mesh *)

\* an f32: finite (v, in units of 1/Scale), or not: v is the sign of an
\* infinity and 0 for NaN. The sign of a zero is not kept.
F(v) == [fin |-> TRUE, v |-> v]
Inf(s) == [fin |-> FALSE, v |-> s]
NaN == Inf(0)

Sign(x) == IF x > 0 THEN 1 ELSE IF x < 0 THEN -1 ELSE 0

FNeg(a) == [a EXCEPT !.v = -a.v]

FAdd(a, b) ==
    IF a.fin /\ b.fin THEN F(a.v + b.v)
    ELSE IF a.fin THEN b
    ELSE IF b.fin THEN a
    ELSE IF a.v = b.v THEN a ELSE NaN

\* 0 * inf and anything * NaN are NaN
FMul(a, b) == IF a.fin /\ b.fin THEN F(Mul(a.v, b.v)) ELSE Inf(Sign(a.v) * Sign(b.v))

\* 1.0 / a
FRecip(a) ==
    IF a.fin THEN (IF a.v = 0 THEN Inf(1) ELSE F(Sign(a.v) * RDiv(Scale * Scale, Abs(a.v))))
    ELSE IF a.v = 0 THEN NaN ELSE F(0)

FVAdd(a, b) == <<FAdd(a[1], b[1]), FAdd(a[2], b[2]), FAdd(a[3], b[3])>>
FVScale(a, s) == <<FMul(a[1], s), FMul(a[2], s), FMul(a[3], s)>>

\* [0.0; 3]
Zero3 == <<F(0), F(0), F(0)>>

\* ModelVertex i (from 0) of the parser's mesh m
ModelVertex(m, i) ==
    [position |-> <<m.positions[i * 3 + 1], m.positions[i * 3 + 2], m.positions[i * 3 + 3]>>,
     tex_coords |-> <<m.texcoords[i * 2 + 1], m.texcoords[i * 2 + 2]>>,
     normal |-> <<m.normals[i * 3 + 1], m.normals[i * 3 + 2], m.normals[i * 3 + 3]>>,
     tangent |-> Zero3,
     bitangent |-> Zero3]

\* the vertices and vec![0; vertices.len()] before the first triangle
InitialVertices(m) ==
    [vertices |-> [k \in 1..(Len(m.positions) \div 3) |-> ModelVertex(m, k - 1)],
     triangles_included |-> [k \in 1..(Len(m.positions) \div 3) |-> 0]]

\* indices.chunks(3): chunk k (from 1)
NumChunks(indices) == Len(indices) \div 3
Chunk(indices, k) == <<indices[3 * k - 2], indices[3 * k - 1], indices[3 * k]>>

\* 1.0 / (delta_uv1.x * delta_uv2.y - delta_uv1.y * delta_uv2.x)
TriangleR(uv0, uv1, uv2) ==
    LET delta_uv1 == <<uv1[1] - uv0[1], uv1[2] - uv0[2]>>
        delta_uv2 == <<uv2[1] - uv0[1], uv2[2] - uv0[2]>>
    IN  FRecip(F(Mul(delta_uv1[1], delta_uv2[2]) - Mul(delta_uv1[2], delta_uv2[1])))

\* (delta_pos1 * delta_uv2.y - delta_pos2 * delta_uv1.y) * r
TriangleTangent(v0, v1, v2) ==
    LET delta_uv1 == <<v1.tex_coords[1] - v0.tex_coords[1], v1.tex_coords[2] - v0.tex_coords[2]>>
        delta_uv2 == <<v2.tex_coords[1] - v0.tex_coords[1], v2.tex_coords[2] - v0.tex_coords[2]>>
        r == TriangleR(v0.tex_coords, v1.tex_coords, v2.tex_coords)
    IN  [c \in 1..3 |->
            FMul(F(Mul(v1.position[c] - v0.position[c], delta_uv2[2])
                   - Mul(v2.position[c] - v0.position[c], delta_uv1[2])), r)]

\* (delta_pos2 * delta_uv2.x - delta_pos1 * delta_uv2.x) * -r
TriangleBitangent(v0, v1, v2) ==
    LET delta_uv2 == <<v2.tex_coords[1] - v0.tex_coords[1], v2.tex_coords[2] - v0.tex_coords[2]>>
        r == TriangleR(v0.tex_coords, v1.tex_coords, v2.tex_coords)
    IN  [c \in 1..3 |->
            FMul(F(Mul(v2.position[c] - v0.position[c], delta_uv2[1])
                   - Mul(v1.position[c] - v0.position[c], delta_uv2[1])), FNeg(r))]

\* a vertex that keeps the tangent and bitangent of its last triangle
AddToVertexOverwriting(acc, i, tangent, bitangent) ==
    [vertices |-> [acc.vertices EXCEPT ![i + 1].tangent = tangent,
                                       ![i + 1].bitangent = bitangent],
     triangles_included |-> [acc.triangles_included EXCEPT ![i + 1] = @ + 1]]

\* vertices[i].tangent = tangent + vertices[i].tangent, the bitangent alike,
\* triangles_included[i] += 1 (i from 0)
AddToVertex(acc, i, tangent, bitangent) ==
    [vertices |-> [acc.vertices EXCEPT ![i + 1].tangent = FVAdd(tangent, @),
                                       ![i + 1].bitangent = FVAdd(bitangent, @)],
     triangles_included |-> [acc.triangles_included EXCEPT ![i + 1] = @ + 1]]

\* the body of the loop over the triangles, for one chunk
Accumulate(acc, chunk) ==
    LET v0 == acc.vertices[chunk[1] + 1]
        v1 == acc.vertices[chunk[2] + 1]
        v2 == acc.vertices[chunk[3] + 1]
        tangent == TriangleTangent(v0, v1, v2)
        bitangent == TriangleBitangent(v0, v1, v2)
    IN  AddToVertex(AddToVertex(AddToVertex(acc, chunk[1], tangent, bitangent),
                                chunk[2], tangent, bitangent),
                    chunk[3], tangent, bitangent)

\* the vertices and counts after the first k chunks
RECURSIVE AfterChunks(_, _)
AfterChunks(m, k) ==
    IF k = 0 THEN InitialVertices(m)
    ELSE Accumulate(AfterChunks(m, k - 1), Chunk(m.indices, k))

\* the loop over triangles_included: every vertex is scaled by 1.0 / n
Averaged(acc) ==
    [i \in DOMAIN acc.vertices |->
        [acc.vertices[i] EXCEPT
            !.tangent = FVScale(@, FRecip(F(acc.triangles_included[i] * Scale))),
            !.bitangent = FVScale(@, FRecip(F(acc.triangles_included[i] * Scale)))]]

\* the contents of the vertex buffer of the parser's mesh m
MeshVertices(m) ==
    Averaged(AfterChunks(m, NumChunks(m.indices)))

\* Mesh { num_elements: m.mesh.indices.len(), material: m.mesh.material_id.unwrap_or(0) }
MeshOf(m) == [num_elements |-> Len(m.indices),
              material |-> IF m.material_id = None THEN 0 ELSE m.material_id[1]]

\* the two buffers requested for mesh j
MeshRequests(j) ==
    <<[request |-> "vertex_buffer", of |-> j, contents |-> MeshVertices(models[j])],
      [request |-> "index_buffer", of |-> j, contents |-> models[j].indices]>>

\* the buffers of the last mesh requested first
RECURSIVE AllMeshRequestsReversed(_)
AllMeshRequestsReversed(n) ==
    IF n = 0 THEN <<>> ELSE MeshRequests(n) \o AllMeshRequestsReversed(n - 1)

\* the requests of models.into_iter().map(..), mesh after mesh
RECURSIVE AllMeshRequests(_)
AllMeshRequests(n) == IF n = 0 THEN <<>> ELSE AllMeshRequests(n - 1) \o MeshRequests(n)

\* models.into_iter().map(..).collect() and Ok(Model { meshes, materials })
BuildMeshes ==
    /\ pc = "meshes"
    /\ gpu_requests' = gpu_requests \o AllMeshRequests(Len(models))
    /\ Return(Ok([meshes |-> [j \in 1..Len(models) |-> MeshOf(models[j])],
                  materials |-> materials]))
    /\ UNCHANGED <<target, asset, obj_materials, models, materials, diffuse_texture, fetches, inputVars>>

----------------------------------------------------------------------------
(* The calls the model makes *)

KeyCodes == {"W", "Up", "A", "Left", "S", "Down", "D", "Right", "LShift", "Space", "Q"}
ElementStates == {"Pressed", "Released"}

WindowEvents ==
    {KeyboardInput(s, Some(k)) : s \in ElementStates, k \in KeyCodes}
    \cup {KeyboardInput(s, None) : s \in ElementStates}
    \cup {[kind |-> "Resized"]}

\* raw pointer deltas (dx, dy)
MouseDeltas == {<<-90 * Scale, 100 * Scale>>, <<30 * Scale, -200 * Scale>>}

DeviceEvents == {MouseMotion(d) : d \in MouseDeltas} \cup {[kind |-> "Button"]}

PitchDeltas == {-4 * Scale, -3000, 0, 3000, 4 * Scale}
YawDeltas == {-HalfPi, 0, 5236}
FovInputs == {0, 5000, 30 * Scale, 90 * Scale}

\* the camera and its controller as constructed, no call made yet
InitInput ==
    /\ CameraNew
    /\ ControllerNew
    /\ keys_down = {}
    /\ pending_events = <<>>
    /\ last = [op |-> "new", arg |-> None, ret |-> None]
    /\ steps = 0

Init == InitInput /\ LoaderIdle

\* the frame loop: window events, device events and update_camera
Next ==
    \/ \E event \in WindowEvents : process_window_events(event)
    \/ \E event \in DeviceEvents : process_device_event(event)
    \/ update_camera

Spec == Init /\ [][Next]_vars

\* the camera driven directly and through pointer motions
NextCamera ==
    \/ \E d \in PitchDeltas : increment_pitch(d)
    \/ \E d \in YawDeltas : increment_yaw(d)
    \/ \E v \in FovInputs : set_fov_y(v)
    \/ \E event \in DeviceEvents : process_device_event(event)
    \/ update_camera

SpecCamera == Init /\ [][NextCamera]_vars

\* one load_model call, from its start to its return
InitLoad == InitInput /\ LoadStart

NextLoad ==
    \/ LoadObjText
    \/ LoadMaterialFile
    \/ ParseObj
    \/ UnwrapMaterials
    \/ LoadDiffuseTexture
    \/ LoadNormalTexture
    \/ BuildMeshes

SpecLoad == InitLoad /\ [][NextLoad]_vars

\* load_model on the meshes whose tangents and bitangents it computes
InitTangent == InitInput /\ LoadGeometryStart

NextTangent ==
    \/ LoadObjText
    \/ ParseObj
    \/ UnwrapMaterials
    \/ BuildMeshes

SpecTangent == InitTangent /\ [][NextTangent]_vars

\* the fetcher alone, on either build
InitFetch == InitInput /\ FetchStart

NextFetch ==
    \/ \E path \in {<<"obj">>, <<"mtl">>} : load_string(path)
    \/ \E path \in {<<"diffuse", 1>>, <<"normal", 1>>} : load_binary(path)

SpecFetch == InitFetch /\ [][NextFetch]_vars

----------------------------------------------------------------------------
(* Camera and controller properties *)

Degrees(d) == ToRadians(d * Scale)

\* what a fixed-point vector is allowed to be off by: 0.005
Tolerance == Scale \div 200
IsUnit(v) == Abs(Magnitude(v) - Scale) <= Tolerance
Orthogonal(a, b) == Abs(Dot(a, b)) <= Tolerance * Scale

OrientationCalls == {"increment_pitch", "increment_yaw", "update_camera"}

\* C1: after any sequence of increment_pitch calls, made directly or by
\* update_camera for a pending pointer delta, the pitch lies in
\* [-89 degrees, +89 degrees].
PitchWithinLimit == -Degrees(89) <= pitch /\ pitch <= Degrees(89)

\* C1 witness: update_camera applied a pending delta_pitch of 200 degrees and
\* the pitch stopped at +89 degrees.
PitchClampedByUpdate ==
    /\ last.op = "update_camera"
    /\ last.arg.applied # None
    /\ last.arg.applied[1][2] > 2 * Degrees(89)
    /\ pitch = Degrees(89)

\* C2: when pointer motions were processed since the previous update_camera,
\* update_camera turns the camera by the converted delta of the last of them
\* alone (the yaw by its delta_yaw, the pitch by its delta_pitch through
\* increment_pitch); the earlier motions contribute nothing.
LastWriteWins ==
    [][(last'.op = "update_camera" /\ pending_events # <<>>)
        => LET d == ConvertDelta(pending_events[Len(pending_events)])
           IN  /\ yaw' = yaw + d[1]
               /\ pitch' = Clamp(pitch + d[2], -Degrees(89), Degrees(89))]_vars

\* C2 witness: two different pointer motions, then the update_camera that
\* applied the second one.
SecondMotionApplied ==
    /\ last.op = "update_camera"
    /\ Len(last.arg.events) = 2
    /\ last.arg.events[1] # last.arg.events[2]
    /\ steps = 3
    /\ yaw = INITIAL_YAW + ConvertDelta(last.arg.events[2])[1]
    /\ yaw # INITIAL_YAW + ConvertDelta(last.arg.events[1])[1]

\* C3: every update_camera call leaves no pending delta, and an update_camera
\* call with nothing pending leaves yaw, pitch and the three vectors as they
\* were, so a delta is applied by one update_camera call only.
PendingConsumedOnce ==
    [][last'.op = "update_camera"
        => /\ cursor_move' = None
           /\ cursor_move = None => UNCHANGED <<yaw, pitch, front, right, up>>]_vars

\* C3 witness: an update_camera call that found nothing pending, after an
\* earlier one that applied a pointer motion (only a pointer motion of -200
\* degrees brings the pitch to +89 degrees).
UpdateWithNothingPending ==
    /\ last.op = "update_camera"
    /\ last.arg.applied = None
    /\ last.arg.events = <<>>
    /\ pitch = Degrees(89)

BoundKeys == {"W", "Up", "S", "Down", "A", "Left", "D", "Right", "LShift", "Space"}

\* C4: a keyboard event for a bound key sets the flag of that key to
\* "pressed", leaves the other five flags alone and returns true; any other
\* key, a keyboard event without key code and any other window event change
\* no flag and return false.
KeyEventsSetFlags ==
    [][last'.op = "process_window_events"
        => LET e == last'.arg
               bound == /\ e.kind = "KeyboardInput"
                        /\ e.virtual_keycode # None
                        /\ e.virtual_keycode[1] \in BoundKeys
               key == e.virtual_keycode[1]
               pressed == e.state = "Pressed"
               Kept(flags) == \A i \in 1..6 : flags[i] \/ (flagVars[i]' = flagVars[i])
           IN  IF bound
               THEN /\ last'.ret = TRUE
                    /\ key \in {"W", "Up"} =>
                         is_forward_pressed' = pressed /\ Kept(<<TRUE, FALSE, FALSE, FALSE, FALSE, FALSE>>)
                    /\ key \in {"S", "Down"} =>
                         is_backward_pressed' = pressed /\ Kept(<<FALSE, TRUE, FALSE, FALSE, FALSE, FALSE>>)
                    /\ key \in {"A", "Left"} =>
                         is_left_pressed' = pressed /\ Kept(<<FALSE, FALSE, TRUE, FALSE, FALSE, FALSE>>)
                    /\ key \in {"D", "Right"} =>
                         is_right_pressed' = pressed /\ Kept(<<FALSE, FALSE, FALSE, TRUE, FALSE, FALSE>>)
                    /\ key = "LShift" =>
                         is_down_pressed' = pressed /\ Kept(<<FALSE, FALSE, FALSE, FALSE, TRUE, FALSE>>)
                    /\ key = "Space" =>
                         is_up_pressed' = pressed /\ Kept(<<FALSE, FALSE, FALSE, FALSE, FALSE, TRUE>>)
               ELSE /\ last'.ret = FALSE
                    /\ UNCHANGED flagVars]_vars

\* C4 witness: the Up arrow was released (consumed) while strafe-up stays held
\* and forward is cleared.
UpArrowReleased ==
    /\ last.op = "process_window_events"
    /\ last.arg = KeyboardInput("Released", Some("Up"))
    /\ last.ret = TRUE
    /\ ~is_forward_pressed
    /\ is_up_pressed

Contribution(held, axis, speed) == IF held THEN VScale(axis, speed) ELSE <<0, 0, 0>>

\* C5: one update_camera call moves the position by the sum of the
\* contributions of the held flags: +/- move_speed along front, right and up
\* for each held flag, nothing for a flag that is not held.
PositionMovesBySum ==
    [][last'.op = "update_camera"
        => position' =
             VAdd(position,
             VAdd(Contribution(is_forward_pressed, front, MoveSpeed),
             VAdd(Contribution(is_backward_pressed, front, -MoveSpeed),
             VAdd(Contribution(is_right_pressed, right, MoveSpeed),
             VAdd(Contribution(is_left_pressed, right, -MoveSpeed),
             VAdd(Contribution(is_down_pressed, up, -MoveSpeed),
                  Contribution(is_up_pressed, up, MoveSpeed)))))))]_vars

\* C5 witness: forward and strafe-up held for one update_camera call, the
\* camera at front * move_speed + up * move_speed, which is neither term alone.
ForwardAndUpMoved ==
    /\ last.op = "update_camera"
    /\ steps = 3
    /\ is_forward_pressed /\ is_up_pressed
    /\ ~is_backward_pressed /\ ~is_left_pressed /\ ~is_right_pressed /\ ~is_down_pressed
    /\ position = VAdd(VScale(front, MoveSpeed), VScale(up, MoveSpeed))
    /\ position # VScale(front, MoveSpeed)
    /\ position # VScale(up, MoveSpeed)

\* C6: the vertical field of view, read as build_view_projection_matrix reads
\* it (cgmath::Deg(fov_y)), stays within [1 degree, 45 degrees].
FovWithinBounds == 1 * Scale <= fov_y /\ fov_y <= 45 * Scale

\* C7 as stated: after an orientation update front, right and up are unit
\* length and pairwise orthogonal.
OrthonormalAfterUpdate ==
    last.op \in OrientationCalls
        => /\ IsUnit(front) /\ IsUnit(right) /\ IsUnit(up)
           /\ Orthogonal(front, right)
           /\ Orthogonal(right, up)
           /\ Orthogonal(front, up)

\* C7 amended: after an orientation update front, right and up are unit
\* length, right is orthogonal to front and to up, and front . up = sin(pitch)
\* (up is the world's up axis), which is zero only for a level camera.
UnitVectorsRightOrthogonal ==
    last.op \in OrientationCalls
        => /\ IsUnit(front) /\ IsUnit(right) /\ IsUnit(up)
           /\ Orthogonal(front, right)
           /\ Orthogonal(right, up)
           /\ Abs(Dot(front, up) - Sin(pitch) * Scale) <= Tolerance * Scale
           /\ Orthogonal(front, up) <=> Abs(Sin(pitch)) <= Tolerance

\* C7 witness: increment_pitch left a camera that looks upwards, front not
\* orthogonal to up.
PitchedCameraNotOrthogonal ==
    /\ last.op = "increment_pitch"
    /\ pitch > 0
    /\ ~Orthogonal(front, up)

\* C8: increment_pitch(0) and increment_yaw(0) leave pitch, yaw, front, right,
\* up and position unchanged.
ZeroDeltaChangesNothing ==
    [][(last'.op \in {"increment_pitch", "increment_yaw"} /\ last'.arg = 0)
        => UNCHANGED <<pitch, yaw, front, right, up, position>>]_vars

\* C8 witness: increment_yaw(0) on a camera that was turned and pitched.
ZeroYawOnTurnedCamera ==
    /\ last.op = "increment_yaw"
    /\ last.arg = 0
    /\ pitch # 0
    /\ yaw # INITIAL_YAW

----------------------------------------------------------------------------
(* Loader properties *)

FailedFetches == {i \in 1..Len(fetches) : ~fetches[i].ok}
TexturePaths == {i \in 1..Len(fetches) : fetches[i].path[1] \in {"diffuse", "normal"}}

\* C9: a load whose fetch of a diffuse or normal texture fails returns a
\* fetch failure and no Model; a Model is returned only when every fetch,
\* the two parses and every texture build succeeded, and it is then the whole
\* model: every material and every mesh of the asset.
LoadIsAllOrNothing ==
    /\ FailedFetches \cap TexturePaths # {} => result = Err("FetchFailure")
    /\ result.kind # "Ok" => DOMAIN result \subseteq {"kind", "error"}
    /\ result.kind = "Ok" =>
        /\ FailedFetches = {}
        /\ asset.obj = "ok" /\ asset.mtl \in {"none", "ok"}
        /\ \A i \in 1..Len(asset.materials) :
             asset.materials[i].diffuse = "ok" /\ asset.materials[i].normal = "ok"
        /\ Len(result.value.materials) = Len(asset.materials)
        /\ Len(result.value.meshes) = Len(asset.meshes)

\* C9 witness: the diffuse texture of the second material is missing; the
\* load has returned the fetch failure although one material was built.
MissingDiffuseFailsLoad ==
    /\ pc = "done"
    /\ result = Err("FetchFailure")
    /\ Len(materials) = 1
    /\ fetches[Len(fetches)] = [path |-> <<"diffuse", 2>>, ok |-> FALSE]

\* C10: every fetch that fails during load_model (of the asset text, of the
\* material file, of a texture) makes load_model return a fetch failure to its
\* caller, and nothing is fetched after it.
FetchFailuresPropagate ==
    \A i \in FailedFetches : result = Err("FetchFailure") /\ i = Len(fetches)

\* C11: on both builds load_string and load_binary return a fetch failure for
\* a resource that is missing or unreadable, for a transport error and for a
\* response with a non-success status: such a response is never returned as
\* contents.
BackendsReportFailure ==
    fetches # <<>> =>
        LET path == fetches[Len(fetches)].path
        IN  FileState(path) \in {"missing", "unreachable"}
                => result = Err("FetchFailure") /\ ~fetches[Len(fetches)].ok

\* C12: in every Model load_model returns, each Mesh's material index is an
\* index into the Model's material list (index < number of materials), the
\* default 0 of a mesh without a material included.
MaterialIndexValid ==
    result.kind = "Ok" =>
        \A j \in 1..Len(result.value.meshes) :
            result.value.meshes[j].material < Len(result.value.materials)

(* Tangent and bitangent properties *)

Close(a, b) == a.fin = b.fin /\ (IF a.fin THEN Abs(a.v - b.v) <= Tolerance ELSE a.v = b.v)
Close3(a, b) == \A c \in 1..3 : Close(a[c], b[c])

\* the mesh load_model was called on and the vertices it handed to the GPU
LoadedMesh == asset.meshes[1]
LoadedVertices == gpu_requests[1].contents
MeshLoaded == pc = "done" /\ result.kind = "Ok" /\ Len(gpu_requests) = 2

\* how many times the index list of m names vertex i (from 0)
References(m, i) == Cardinality({k \in 1..Len(m.indices) : m.indices[k] = i})

\* the sum of what the triangles k..NumChunks of m that name vertex i give
\* it, by the loader's per-triangle formulas
RECURSIVE ContributionSum(_, _, _, _)
ContributionSum(m, i, k, bitangent) ==
    IF k > NumChunks(m.indices) THEN Zero3
    ELSE LET chunk == Chunk(m.indices, k)
             v0 == ModelVertex(m, chunk[1])
             v1 == ModelVertex(m, chunk[2])
             v2 == ModelVertex(m, chunk[3])
             t == IF bitangent THEN TriangleBitangent(v0, v1, v2) ELSE TriangleTangent(v0, v1, v2)
         IN  IF i \in {chunk[1], chunk[2], chunk[3]}
             THEN FVAdd(t, ContributionSum(m, i, k + 1, bitangent))
             ELSE ContributionSum(m, i, k + 1, bitangent)

\* a / n, component by component
MeanOf(a, n) == [c \in 1..3 |-> IF a[c].fin THEN F(RDiv(a[c].v, n)) ELSE a[c]]

\* m with its triangles in the order p
Reordered(m, p) ==
    [m EXCEPT !.indices = Flatten([k \in 1..NumChunks(m.indices) |-> Chunk(m.indices, p[k])])]

Orders(n) == {p \in [1..n -> 1..n] : \A a, b \in 1..n : p[a] = p[b] => a = b}

\* C13: the tangent and the bitangent of every vertex that N >= 1 triangles
\* name are the mean of the N per-triangle contributions, in whatever order
\* the triangles are processed.
TangentsAreMeans ==
    MeshLoaded =>
        /\ \A i \in 0..3 :
            References(LoadedMesh, i) >= 1 =>
                /\ Close3(LoadedVertices[i + 1].tangent,
                          MeanOf(ContributionSum(LoadedMesh, i, 1, FALSE), References(LoadedMesh, i)))
                /\ Close3(LoadedVertices[i + 1].bitangent,
                          MeanOf(ContributionSum(LoadedMesh, i, 1, TRUE), References(LoadedMesh, i)))
        /\ \A p \in Orders(NumChunks(LoadedMesh.indices)) :
            LET reordered == MeshVertices(Reordered(LoadedMesh, p))
            IN  \A i \in 0..3 :
                    References(LoadedMesh, i) >= 1 =>
                        /\ reordered[i + 1].tangent = LoadedVertices[i + 1].tangent
                        /\ reordered[i + 1].bitangent = LoadedVertices[i + 1].bitangent

\* C13 witness: the patch with the triangles (0,1,2) and (0,2,3) is loaded:
\* vertex 0 has two triangles whose tangents differ
TwoTrianglesAveraged ==
    /\ MeshLoaded
    /\ LoadedMesh = PatchMesh(None, QuadIndices)
    /\ References(LoadedMesh, 0) = 2
    /\ ContributionSum(LoadedMesh, 0, 1, FALSE) # ContributionSum(LoadedMesh, 0, 2, FALSE)
    /\ ContributionSum(LoadedMesh, 0, 2, FALSE) # Zero3
    /\ \A c \in 1..3 : LoadedVertices[1].tangent[c].fin

SplitsQuad(indices) ==
    /\ NumChunks(indices) = 2
    /\ LET a == {indices[1], indices[2], indices[3]}
           b == {indices[4], indices[5], indices[6]}
       IN  a \cup b = 0..3 /\ a \cap b \in {{0, 2}, {1, 3}}

\* C15: for the unit quad split into two triangles every vertex gets the
\* tangent (1,0,0) and the bitangent (0,1,0), or the same pair under one sign
\* convention for the whole mesh.
QuadBasisIsUniform ==
    (MeshLoaded /\ LoadedMesh = QuadMesh(None, LoadedMesh.indices) /\ SplitsQuad(LoadedMesh.indices)) =>
        \E st \in {1, -1}, sb \in {1, -1} :
            \A i \in 0..3 :
                /\ Close3(LoadedVertices[i + 1].tangent, <<F(st * Scale), F(0), F(0)>>)
                /\ Close3(LoadedVertices[i + 1].bitangent, <<F(0), F(sb * Scale), F(0)>>)

(* Ordering of one load *)

IsPrefix(a, b) == Len(a) <= Len(b) /\ a = SubSeq(b, 1, Len(a))

IsTextureFetch(f) == f.path[1] \in {"diffuse", "normal"}
IsMaterialRequest(r) == r.request \in {"texture", "material"}
IsMeshRequest(r) == r.request \in {"vertex_buffer", "index_buffer"}

\* the paths fetched, the requests made, without their contents
PathsOf(fs) == [k \in 1..Len(fs) |-> fs[k].path]
KindsOf(rs) == [k \in 1..Len(rs) |-> <<rs[k].request, rs[k].of>>]

\* the order the claim gives the texture fetches, the material requests and
\* the mesh requests of an asset
RECURSIVE TextureOrder(_)
TextureOrder(n) ==
    IF n = 0 THEN <<>> ELSE TextureOrder(n - 1) \o <<<<"diffuse", n>>, <<"normal", n>>>>

RECURSIVE MaterialOrder(_)
MaterialOrder(n) ==
    IF n = 0 THEN <<>>
    ELSE MaterialOrder(n - 1)
            \o <<<<"texture", <<"diffuse", n>>>>, <<"texture", <<"normal", n>>>>, <<"material", n>>>>

RECURSIVE MeshOrder(_)
MeshOrder(n) ==
    IF n = 0 THEN <<>> ELSE MeshOrder(n - 1) \o <<<<"vertex_buffer", n>>, <<"index_buffer", n>>>>

\* C16: in one load_model call the materials are resolved in source order,
\* each material's diffuse texture, then its normal texture, before anything
\* of the next material; the meshes are built in source order; the returned
\* lists have the parsed order; and every material is resolved before any
\* mesh buffer is requested from the GPU.
ResolvedInSourceOrder ==
    /\ IsPrefix(PathsOf(SelectSeq(fetches, IsTextureFetch)), TextureOrder(Len(asset.materials)))
    /\ IsPrefix(KindsOf(SelectSeq(gpu_requests, IsMaterialRequest)),
                MaterialOrder(Len(asset.materials)))
    /\ IsPrefix(KindsOf(SelectSeq(gpu_requests, IsMeshRequest)), MeshOrder(Len(asset.meshes)))
    /\ \A a \in 1..Len(gpu_requests) :
        IsMeshRequest(gpu_requests[a]) =>
            /\ Len(materials) = Len(asset.materials)
            /\ Len(SelectSeq(SubSeq(gpu_requests, 1, a), IsMaterialRequest))
                    = 3 * Len(asset.materials)
            /\ Len(SelectSeq(fetches, IsTextureFetch)) = 2 * Len(asset.materials)
    /\ result.kind = "Ok" =>
        /\ Len(result.value.materials) = Len(asset.materials)
        /\ \A i \in 1..Len(asset.materials) :
            result.value.materials[i] = [name |-> i, diffuse_texture |-> <<"diffuse", i>>,
                                         normal_texture |-> <<"normal", i>>]
        /\ Len(result.value.meshes) = Len(asset.meshes)
        /\ \A j \in 1..Len(asset.meshes) : result.value.meshes[j] = MeshOf(asset.meshes[j])

\* C16 witness: a Model of two materials and two meshes, the first mesh with
\* the second material and the second mesh with the first
TwoMaterialsTwoMeshesLoaded ==
    /\ result.kind = "Ok"
    /\ Len(result.value.materials) = 2
    /\ Len(result.value.meshes) = 2
    /\ result.value.meshes[1].material = 1
    /\ result.value.meshes[2].material = 0
    /\ Len(gpu_requests) = 10

(* Frame loop properties *)

\* a position moved by the six flags along the axes f, r and u
MovedAlong(pos, f, r, u) ==
    VAdd(pos,
    VAdd(Contribution(is_forward_pressed, f, MoveSpeed),
    VAdd(Contribution(is_backward_pressed, f, -MoveSpeed),
    VAdd(Contribution(is_right_pressed, r, MoveSpeed),
    VAdd(Contribution(is_left_pressed, r, -MoveSpeed),
    VAdd(Contribution(is_down_pressed, u, -MoveSpeed),
         Contribution(is_up_pressed, u, MoveSpeed)))))))

\* C17: one update_camera call moves the position along front, right and up
\* as they are before the call's pending pointer delta is applied; the
\* rotation the call applies comes after the movement, so the turned axes
\* move the camera from the next update_camera call on.
MovementPrecedesRotation ==
    [][last'.op = "update_camera"
        => /\ position' = MovedAlong(position, front, right, up)
           /\ last'.arg.applied # None
                => /\ front' = FrontOf(pitch', yaw')
                   /\ right' = RightOf(pitch', yaw')
                   /\ pitch' = PitchAfter(pitch, last'.arg.applied[1][2])
                   /\ yaw' = YawAfter(yaw, last'.arg.applied[1][1])]_vars

\* C17 witness: W held, a pointer motion, two update_camera calls: the first
\* moved along the initial front and turned the camera, the second moved
\* along the turned front.
MovedThenTurnedThenMoved ==
    /\ last.op = "update_camera"
    /\ last.arg.applied = None
    /\ steps = 4
    /\ is_forward_pressed
    /\ front # FrontOf(0, INITIAL_YAW)
    /\ position = VAdd(VScale(FrontOf(0, INITIAL_YAW), MoveSpeed), VScale(front, MoveSpeed))
    /\ position # VAdd(VScale(front, MoveSpeed), VScale(front, MoveSpeed))

\* the value of the flag of a name
FlagValue(flag) ==
    CASE flag = "forward" -> is_forward_pressed
      [] flag = "backward" -> is_backward_pressed
      [] flag = "left" -> is_left_pressed
      [] flag = "right" -> is_right_pressed
      [] flag = "down" -> is_down_pressed
      [] flag = "up" -> is_up_pressed

\* its value after a step
FlagValueAfter(flag) ==
    CASE flag = "forward" -> is_forward_pressed'
      [] flag = "backward" -> is_backward_pressed'
      [] flag = "left" -> is_left_pressed'
      [] flag = "right" -> is_right_pressed'
      [] flag = "down" -> is_down_pressed'
      [] flag = "up" -> is_up_pressed'

\* C18: a flag is the pressed / released state of the most recent keyboard
\* event of any key bound to it, whatever other key bound to it is still
\* down: with W and Up held, the release of either clears the forward flag,
\* and update_camera calls no longer move the camera forward.
MostRecentKeyEventWins ==
    [][/\ (last'.op = "process_window_events" /\ FlagOf(last'.arg) # "none")
            => FlagValueAfter(FlagOf(last'.arg)) = (last'.arg.state = "Pressed")
       /\ \A flag \in {"forward", "backward", "left", "right", "down", "up"} :
            (last'.op = "process_window_events" /\ FlagOf(last'.arg) # flag)
                => FlagValueAfter(flag) = FlagValue(flag)
       /\ (last'.op = "update_camera" /\ ~is_forward_pressed)
            => position' = VAdd(position,
                           VAdd(Contribution(is_backward_pressed, front, -MoveSpeed),
                           VAdd(Contribution(is_right_pressed, right, MoveSpeed),
                           VAdd(Contribution(is_left_pressed, right, -MoveSpeed),
                           VAdd(Contribution(is_down_pressed, up, -MoveSpeed),
                                Contribution(is_up_pressed, up, MoveSpeed))))))]_vars

\* C18 witness: W and Up pressed, W released, then update_camera: Up is
\* still down, the forward flag is clear and the camera has not moved.
ReleasedWhileOtherKeyDown ==
    /\ last.op = "update_camera"
    /\ steps = 4
    /\ keys_down = {"Up"}
    /\ ~is_forward_pressed
    /\ position = <<0, 0, 0>>

\* C19: process_window_events leaves the pending pointer delta and the
\* camera alone, process_device_event leaves the key flags and the camera
\* alone, the camera changes in update_camera only, and update_camera leaves
\* the key flags alone, so that a held flag moves the camera on every
\* update_camera call until its key is released.
HandlersKeepToTheirState ==
    [][/\ last'.op = "process_window_events" => UNCHANGED <<cursor_move, cameraVars>>
       /\ last'.op = "process_device_event" => UNCHANGED <<flagVars, cameraVars>>
       /\ cameraVars' # cameraVars => last'.op = "update_camera"
       /\ last'.op = "update_camera"
            => /\ UNCHANGED flagVars
               /\ is_forward_pressed # is_backward_pressed => position' # position
               /\ is_right_pressed # is_left_pressed => position' # position
               /\ is_up_pressed # is_down_pressed => position' # position]_vars

\* C19 witness: W pressed once, then three update_camera calls, each of which
\* moved the camera forward.
HeldKeyMovesEveryUpdate ==
    /\ last.op = "update_camera"
    /\ steps = 4
    /\ keys_down = {"W"}
    /\ is_forward_pressed
    /\ position = VAdd(VScale(front, MoveSpeed),
                       VAdd(VScale(front, MoveSpeed), VScale(front, MoveSpeed)))

====
